---------------------------- MODULE Spec2Model ----------------------------
(***************************************************************************)
(* State-machine model of src/app.py, the "AI Sea Ice Analyst" Streamlit   *)
(* page.  A session is the pair of sidebar widgets (api_key,               *)
(* uploaded_file) plus what the last run of the script computed and        *)
(* displayed.  Every widget interaction re-runs the script from the top;   *)
(* the run blocks in client.chat.completions.create until the service      *)
(* answers.                                                                *)
(*                                                                         *)
(* Numbers.  Extent is kept in tenths of 10^6 sq km (12.5 is 125).  A      *)
(* float is a record [nan, num, den]: either NaN or the reduced fraction   *)
(* num/den (in tenths); binary rounding of float64 is not modelled.        *)
(* An optional value is a sequence of length 0 (absent) or 1.              *)
(***************************************************************************)
EXTENDS Integers, Sequences, FiniteSets, TLC

(***************************************************************************)
(* Bounds of the model.                                                    *)
(***************************************************************************)
MaxRows == 4

(***************************************************************************)
(* Optional values and floats.                                             *)
(***************************************************************************)
Absent == <<>>
Some(v) == <<v>>

NaN == [nan |-> TRUE, num |-> 0, den |-> 1]

RECURSIVE GCD(_, _)
GCD(a, b) == IF b = 0 THEN a ELSE GCD(b, a % b)

\* the float num/den, den > 0, num >= 0
Frac(num, den) ==
    LET g == GCD(num, den)
    IN  [nan |-> FALSE, num |-> num \div g, den |-> den \div g]

\* IEEE comparisons: every comparison with NaN is false
FLe(a, b) == ~a.nan /\ ~b.nan /\ a.num * b.den <= b.num * a.den
FEq(a, b) == ~a.nan /\ ~b.nan /\ a.num * b.den = b.num * a.den

(***************************************************************************)
(* Input rows.  A CSV row as pd.read_csv yields it: integer Year, Month,   *)
(* Day, Extent (tenths) and the hemisphere label.                          *)
(***************************************************************************)
Row(y, m, d, e, h) ==
    [Year |-> y, Month |-> m, Day |-> d, Extent |-> e, hemisphere |-> h]

\* the four rows of the end-to-end example
ExampleTable ==
    << Row(1979, 1, 1, 125, "north"), Row(1979, 1, 1, 110, "south"),
       Row(2019, 12, 31, 100, "north"), Row(2019, 12, 31, 95, "south") >>

ValidRows ==
    { ExampleTable[i] : i \in 1..4 }
    \cup { Row(1984, 2, 29, 110, "north"),    \* leap day, Year = 1979 + 5
           Row(1979, 6, 15, 95, "north") }

InvalidRows ==
    { Row(1979, 2, 29, 120, "north"),         \* 1979 is no leap year
      Row(1984, 2, 30, 100, "south"),
      Row(2019, 13, 1, 100, "north"),
      Row(2019, 12, 32, 95, "south") }

SampleRows == ValidRows \cup InvalidRows

Tables == UNION { [1..n -> SampleRows] : n \in 0..MaxRows }

ApiKeys == { "", "sk-test" }

(***************************************************************************)
(* pd.to_datetime(df[['Year','Month','Day']]), errors='raise'.             *)
(***************************************************************************)
IsLeap(y) == (y % 4 = 0 /\ y % 100 # 0) \/ y % 400 = 0

DaysInMonth(y, m) ==
    IF m = 2 THEN (IF IsLeap(y) THEN 29 ELSE 28)
    ELSE IF m \in {4, 6, 9, 11} THEN 30 ELSE 31

DateConstructible(r) ==
    /\ r.Month \in 1..12
    /\ r.Day >= 1
    /\ r.Day <= DaysInMonth(r.Year, r.Month)

\* errors='coerce' instead of the default: an invalid date becomes NaT
to_datetime_coerce(file) ==
    [raised |-> FALSE,
     value |-> [i \in 1..Len(file) |->
                  IF DateConstructible(file[i])
                  THEN <<file[i].Year, file[i].Month, file[i].Day>>
                  ELSE <<>>]]

to_datetime(file) ==
    IF \A i \in 1..Len(file) : DateConstructible(file[i])
    THEN [raised |-> FALSE,
          value |-> [i \in 1..Len(file) |->
                       <<file[i].Year, file[i].Month, file[i].Day>>]]
    ELSE [raised |-> TRUE, value |-> <<>>]

(***************************************************************************)
(* load_data: the table with its Date column, or the ValueError that       *)
(* to_datetime raised.  st.cache_data memoises this pure function by file  *)
(* content, which does not change its result.                              *)
(***************************************************************************)
WithDate(r, date) ==
    [Year |-> r.Year, Month |-> r.Month, Day |-> r.Day, Extent |-> r.Extent,
     hemisphere |-> r.hemisphere, Date |-> date]

load_data(file) ==
    LET dates == to_datetime(file)
    IN  IF dates.raised
        THEN [raised |-> TRUE, value |-> <<>>]
        ELSE [raised |-> FALSE,
              value |-> [i \in 1..Len(file) |-> WithDate(file[i], dates.value[i])]]


(***************************************************************************)
(* Series helpers.                                                         *)
(***************************************************************************)
RECURSIVE Sum(_)
Sum(xs) == IF xs = <<>> THEN 0 ELSE Head(xs) + Sum(Tail(xs))

RECURSIVE SumSq(_)
SumSq(xs) == IF xs = <<>> THEN 0 ELSE Head(xs) * Head(xs) + SumSq(Tail(xs))

\* df[mask]['Extent']
ExtentOf(rows) == [i \in 1..Len(rows) |-> rows[i].Extent]

\* Series.mean(): NaN on an empty series
Mean(xs) == IF Len(xs) = 0 THEN NaN ELSE Frac(Sum(xs), Len(xs))

\* df['Year'].max() and .min(): NaN on an empty column
YearMax(t) ==
    IF Len(t) = 0 THEN Absent
    ELSE Some(CHOOSE y \in {t[i].Year : i \in 1..Len(t)} :
                \A i \in 1..Len(t) : t[i].Year <= y)

YearMin(t) ==
    IF Len(t) = 0 THEN Absent
    ELSE Some(CHOOSE y \in {t[i].Year : i \in 1..Len(t)} :
                \A i \in 1..Len(t) : t[i].Year >= y)

(***************************************************************************)
(* Series.describe(): count, mean, std (sample, n-1; kept as its square),  *)
(* min, 25%, 50%, 75% (linear interpolation), max.                         *)
(***************************************************************************)
\* the q-th quartile of the sorted series s, Len(s) > 0, at rank (n-1)*q/4
Quartile(s, q) ==
    LET pos == (Len(s) - 1) * q
        lo  == pos \div 4 + 1
        r   == pos % 4
        hi  == IF r = 0 THEN lo ELSE lo + 1
    IN  Frac(4 * s[lo] + r * (s[hi] - s[lo]), 4)

Variance(xs) ==
    IF Len(xs) < 2 THEN NaN
    ELSE Frac(Len(xs) * SumSq(xs) - Sum(xs) * Sum(xs), Len(xs) * (Len(xs) - 1))

Describe(xs) ==
    LET s == SortSeq(xs, LAMBDA a, b : a < b)
        n == Len(xs)
    IN  IF n = 0
        THEN [count |-> 0, mean |-> NaN, std2 |-> NaN, min |-> NaN,
              q25 |-> NaN, q50 |-> NaN, q75 |-> NaN, max |-> NaN]
        ELSE [count |-> n, mean |-> Mean(xs), std2 |-> Variance(xs),
              min |-> Frac(s[1], 1),
              q25 |-> Quartile(s, 1), q50 |-> Quartile(s, 2),
              q75 |-> Quartile(s, 3),
              max |-> Frac(s[n], 1)]

\* df[df['hemisphere'] == h]
HemisphereRows(t, h) == SelectSeq(t, LAMBDA r : r.hemisphere = h)

\* df[df['hemisphere'] == h]['Extent'].describe().to_string(); the text lists
\* the eight values, so it is kept as the record of them
HemisphereStats(t, h) == Describe(ExtentOf(HemisphereRows(t, h)))

(***************************************************************************)
(* Era comparison.                                                         *)
(***************************************************************************)
EraSpan == 5

\* a comparison with NaN selects no row
InRecent(r, recent_years) ==
    recent_years # Absent /\ r.Year >= recent_years[1] - EraSpan

InPast(r, start_years) ==
    start_years # Absent /\ r.Year <= start_years[1] + EraSpan

\* the window with the sign of the offset slipped
RecentWindow_SignSlip(t) ==
    SelectSeq(t, LAMBDA r : /\ r.hemisphere = "north"
                            /\ YearMax(t) # Absent
                            /\ r.Year >= YearMax(t)[1] + EraSpan)

RecentWindow(t) ==
    SelectSeq(t, LAMBDA r : r.hemisphere = "north" /\ InRecent(r, YearMax(t)))

\* the window with a strict comparison
PastWindow_Strict(t) ==
    SelectSeq(t, LAMBDA r : /\ r.hemisphere = "north"
                            /\ YearMin(t) # Absent
                            /\ r.Year < YearMin(t)[1] + EraSpan)

PastWindow(t) ==
    SelectSeq(t, LAMBDA r : r.hemisphere = "north" /\ InPast(r, YearMin(t)))

RecentAvg(t) == Mean(ExtentOf(RecentWindow(t)))
PastAvg(t) == Mean(ExtentOf(PastWindow(t)))

(***************************************************************************)
(* f"{x:.2f}": the text of x rounded to hundredths, or "nan".  x is in     *)
(* tenths, so the value in hundredths is 10 * num / den; a tie rounds to   *)
(* the even digit.                                                         *)
(***************************************************************************)
DigitChar(d) == <<"0", "1", "2", "3", "4", "5", "6", "7", "8", "9">>[d + 1]

RECURSIVE Digits(_)
Digits(n) ==
    IF n < 10 THEN <<DigitChar(n)>>
    ELSE Digits(n \div 10) \o <<DigitChar(n % 10)>>

Format2f(x) ==
    IF x.nan THEN <<"n", "a", "n">>
    ELSE LET q == (10 * x.num) \div x.den
             r == (10 * x.num) % x.den
             h == IF 2 * r > x.den \/ (2 * r = x.den /\ q % 2 = 1)
                  THEN q + 1 ELSE q
         IN  Digits(h \div 100) \o <<".">>
             \o <<DigitChar((h \div 10) % 10), DigitChar(h % 10)>>

(***************************************************************************)
(* The prompt and the request.                                             *)
(***************************************************************************)
system_prompt == "climate scientist and data analyst; report in Korean"

ReportSections ==
    << "trend summary", "climate-change impact", "variability",
       "conclusion and recommendation" >>

UserPrompt(sn, ss, past, recent) ==
    [north |-> sn, south |-> ss,
     past |-> Format2f(past), recent |-> Format2f(recent),
     sections |-> ReportSections]

\* temperature=0.7, in tenths
Temperature == 7

Request(prompt) ==
    [model |-> "gpt-4o",
     messages |-> << [role |-> "system", content |-> system_prompt],
                     [role |-> "user", content |-> prompt] >>,
     temperature |-> Temperature]

(***************************************************************************)
(* Session state.                                                          *)
(*   api_key, uploaded_file  the sidebar widgets                           *)
(*   pressed        st.button returned True in the current run             *)
(*   pc             "idle": the run is over; "calling": the run is blocked *)
(*                  in client.chat.completions.create                      *)
(*   df .. user_prompt   what the current run computed (absent when the    *)
(*                  run did not get there)                                 *)
(*   client         the run constructed an OpenAI client                   *)
(*   sent           the chat-completion requests the run issued            *)
(*   response       what the service call produced, once it returned       *)
(*   display        the messages the run put on the page, in order (the    *)
(*                  table preview and the charts are left to the display   *)
(*                  layer)                                                 *)
(***************************************************************************)
VARIABLES api_key, uploaded_file, pressed, pc, df, stats_north, stats_south,
          recent_avg_n, past_avg_n, user_prompt, client, sent, response,
          display

widgets == <<api_key, uploaded_file>>
computed == <<df, stats_north, stats_south, recent_avg_n, past_avg_n, user_prompt>>
vars == <<api_key, uploaded_file, pressed, pc, df, stats_north, stats_south,
          recent_avg_n, past_avg_n, user_prompt, client, sent, response,
          display>>

\* messages on the page
Info == [kind |-> "info", cause |-> "upload a CSV file"]
Warning == [kind |-> "warning", cause |-> "enter the OpenAI API key"]
Error(e) == [kind |-> "error", cause |-> e]
Markdown(text) == [kind |-> "markdown", cause |-> text]
\* an exception nothing in the script caught, as the runner shows it
Uncaught(e) == [kind |-> "exception", cause |-> e]

\* what client.chat.completions.create and the reading of its result can do
Failures ==
    { "AuthenticationError", "APIConnectionError", "APIStatusError",
      "IndexError" }
Outcomes == { "report" } \cup Failures

(***************************************************************************)
(* One run of the script, lines 48-148, up to the point where it either    *)
(* ends or blocks in the service call.                                     *)
(***************************************************************************)
NothingComputed ==
    /\ stats_north' = Absent
    /\ stats_south' = Absent
    /\ recent_avg_n' = Absent
    /\ past_avg_n' = Absent
    /\ user_prompt' = Absent

NoCall ==
    /\ client' = FALSE
    /\ sent' = <<>>
    /\ pc' = "idle"

\* the value st.button returns: True only in the run its click started
ButtonClicked(click) == click

\* a guard that lets the empty key through
KeyMissing_Never(key) == FALSE

\* `if not api_key`
KeyMissing(key) == key = ""

RunScript(file, key, click) ==
    /\ response' = Absent
    /\ IF file = Absent
       THEN /\ display' = <<Info>>
            /\ df' = Absent
            /\ pressed' = FALSE
            /\ NothingComputed
            /\ NoCall
       ELSE LET loaded == load_data(file[1])
            IN  IF loaded.raised
                THEN /\ display' = <<Uncaught("ValueError")>>
                     /\ df' = Absent
                     /\ pressed' = FALSE
                     /\ NothingComputed
                     /\ NoCall
                ELSE /\ df' = Some(loaded.value)
                     /\ IF KeyMissing(key)
                        THEN /\ display' = <<Warning>>
                             /\ pressed' = FALSE
                             /\ NothingComputed
                             /\ NoCall
                        ELSE LET t  == loaded.value
                                 sn == HemisphereStats(t, "north")
                                 ss == HemisphereStats(t, "south")
                                 prompt == UserPrompt(sn, ss, PastAvg(t), RecentAvg(t))
                             IN  /\ stats_north' = Some(sn)
                                 /\ stats_south' = Some(ss)
                                 /\ recent_avg_n' = Some(RecentAvg(t))
                                 /\ past_avg_n' = Some(PastAvg(t))
                                 /\ user_prompt' = Some(prompt)
                                 /\ display' = <<>>
                                 /\ pressed' = ButtonClicked(click)
                                 /\ IF ButtonClicked(click)
                                    THEN /\ client' = TRUE
                                         /\ sent' = <<Request(prompt)>>
                                         /\ pc' = "calling"
                                    ELSE NoCall

(***************************************************************************)
(* The rest of the button handler, lines 141-145: the call returned or     *)
(* raised.                                                                 *)
(***************************************************************************)
\* a handler that clears what the run computed when the call fails
Complete_Clearing(o) ==
    /\ pc = "calling"
    /\ pc' = "idle"
    /\ response' = Some(o)
    /\ display' = Append(display, IF o = "report" THEN Markdown(o) ELSE Error(o))
    /\ IF o = "report"
       THEN UNCHANGED computed
       ELSE df' = Absent /\ NothingComputed
    /\ UNCHANGED <<widgets, pressed, client, sent>>

\* a handler that issues the call once more when it fails
Complete_Retrying(o) ==
    /\ pc = "calling"
    /\ IF o \in Failures /\ Len(sent) < 2
       THEN /\ sent' = Append(sent, sent[1])
            /\ UNCHANGED <<pc, response, display>>
       ELSE /\ pc' = "idle"
            /\ response' = Some(o)
            /\ display' = Append(display, IF o = "report" THEN Markdown(o) ELSE Error(o))
            /\ UNCHANGED sent
    /\ UNCHANGED <<widgets, computed, pressed, client>>

\* a handler whose try block ends before the reading of the response
Complete_NarrowTry(o) ==
    /\ pc = "calling"
    /\ pc' = "idle"
    /\ response' = Some(o)
    /\ display' = Append(display,
                         IF o = "report" THEN Markdown(o)
                         ELSE IF o = "IndexError" THEN Uncaught(o) ELSE Error(o))
    /\ UNCHANGED <<widgets, computed, pressed, client, sent>>

Complete(o) ==
    /\ pc = "calling"
    /\ pc' = "idle"
    /\ response' = Some(o)
    /\ display' = Append(display, IF o = "report" THEN Markdown(o) ELSE Error(o))
    /\ UNCHANGED <<widgets, computed, pressed, client, sent>>

(***************************************************************************)
(* Actions: the user's interactions, each followed by the run it starts,   *)
(* and the return of the service call.                                     *)
(***************************************************************************)
ButtonRendered == user_prompt # Absent

EnterApiKey ==
    /\ pc = "idle"
    /\ \E k \in ApiKeys :
         /\ k # api_key
         /\ api_key' = k
         /\ UNCHANGED uploaded_file
         /\ RunScript(uploaded_file, k, FALSE)

\* the uploader holds one file; replacing it reaches the state that removing
\* it and uploading the new one reaches, so only the latter is modelled
UploadFile ==
    /\ pc = "idle"
    /\ uploaded_file = Absent
    /\ \E t \in Tables :
         /\ uploaded_file' = Some(t)
         /\ UNCHANGED api_key
         /\ RunScript(Some(t), api_key, FALSE)

RemoveFile ==
    /\ pc = "idle"
    /\ uploaded_file # Absent
    /\ uploaded_file' = Absent
    /\ UNCHANGED api_key
    /\ RunScript(Absent, api_key, FALSE)

PressButton ==
    /\ pc = "idle"
    /\ ButtonRendered
    /\ UNCHANGED widgets
    /\ RunScript(uploaded_file, api_key, TRUE)

ServiceReturns == \E o \in Outcomes : Complete(o)

Init ==
    /\ api_key = ""
    /\ uploaded_file = Absent
    /\ pressed = FALSE
    /\ pc = "idle"
    /\ df = Absent
    /\ stats_north = Absent
    /\ stats_south = Absent
    /\ recent_avg_n = Absent
    /\ past_avg_n = Absent
    /\ user_prompt = Absent
    /\ client = FALSE
    /\ sent = <<>>
    /\ response = Absent
    /\ display = <<Info>>

Next ==
    \/ EnterApiKey
    \/ UploadFile
    \/ RemoveFile
    \/ PressButton
    \/ ServiceReturns

Spec == Init /\ [][Next]_vars

(***************************************************************************)
(* Properties.                                                             *)
(***************************************************************************)
Failed == pc = "idle" /\ response # Absent /\ response[1] \in Failures

Kinds(k) == {i \in 1..Len(display) : display[i].kind = k}

\* C1: when the service call of a button press fails (authentication,
\* transport, status or malformed response), the run ends with exactly one
\* error message on the page, that message carries the cause, and no
\* exception leaves the handler uncaught.
C1_FailureSurfacedOnce ==
    Failed =>
        /\ Cardinality(Kinds("error")) = 1
        /\ \A i \in Kinds("error") : display[i].cause = response[1]
        /\ Kinds("exception") = {}

C1_Witness ==
    /\ Failed
    /\ response = Some("AuthenticationError")
    /\ display = <<Error("AuthenticationError")>>

\* C2: the step in which the service call fails leaves the table, both
\* statistics blocks and both era means as they were; after it the button is
\* there to be pressed again, and pressing it with the same file and key
\* assembles the same prompt from the same statistics.
C2_FailureLeavesStatistics ==
    [][ /\ (pc = "calling" /\ response' # Absent /\ response'[1] \in Failures)
             => /\ computed' = computed
                /\ df' # Absent /\ stats_north' # Absent /\ stats_south' # Absent
                /\ pc' = "idle"
                /\ ButtonRendered'
        /\ (Failed /\ pressed' /\ widgets' = widgets)
             => /\ computed' = computed
                /\ pc' = "calling"
                /\ sent' = <<Request(user_prompt[1])>>
      ]_vars

C2_Witness ==
    /\ Failed
    /\ response = Some("APIConnectionError")
    /\ stats_north # Absent
    /\ stats_north[1].count > 0
    /\ past_avg_n # Absent

C4_BadDateRejectsLoad ==
    /\ (uploaded_file # Absent
        /\ \E i \in 1..Len(uploaded_file[1]) :
              LET r == uploaded_file[1][i]
              IN  \/ r.Month < 1 \/ r.Month > 12 \/ r.Day < 1
                  \/ r.Day > DaysInMonth(r.Year, r.Month))
         => /\ df = Absent
            /\ stats_north = Absent /\ stats_south = Absent
            /\ recent_avg_n = Absent /\ past_avg_n = Absent
            /\ user_prompt = Absent
            /\ ~client /\ sent = <<>> /\ pc = "idle"
            /\ display = <<Uncaught("ValueError")>>
    /\ df # Absent
         => \A i \in 1..Len(df[1]) :
               df[1][i].Date = <<df[1][i].Year, df[1][i].Month, df[1][i].Day>>

C4_Witness ==
    /\ uploaded_file = Some(<< Row(1979, 1, 1, 125, "north"),
                               Row(1984, 2, 30, 100, "south") >>)
    /\ api_key # ""
    /\ df = Absent
    /\ display = <<Uncaught("ValueError")>>

CountRows(t, h) == Cardinality({i \in 1..Len(t) : t[i].hemisphere = h})

\* C5: with a loaded table that has no row of a hemisphere, no statistics
\* block is produced for that hemisphere (the request for it fails).
C5_EmptyGroupFails ==
    df # Absent =>
        /\ CountRows(df[1], "south") = 0 => stats_south = Absent
        /\ CountRows(df[1], "north") = 0 => stats_north = Absent

\* C6: whenever a request is issued, both statistics blocks and both era
\* means are defined, and the prompt sent does not contain "nan".
C6_NoIncompleteRequest ==
    sent # <<>> =>
        /\ stats_north # Absent /\ stats_north[1].count > 0
        /\ stats_south # Absent /\ stats_south[1].count > 0
        /\ past_avg_n # Absent /\ ~past_avg_n[1].nan
        /\ recent_avg_n # Absent /\ ~recent_avg_n[1].nan
        /\ \A i \in 1..Len(sent) :
              LET p == sent[i].messages[2].content
              IN  p.past # <<"n", "a", "n">> /\ p.recent # <<"n", "a", "n">>

RECURSIVE SumAt(_, _)
SumAt(t, I) ==
    IF I = {} THEN 0
    ELSE LET i == CHOOSE j \in I : TRUE
         IN  t[i].Extent + SumAt(t, I \ {i})

MeanAt(t, I) == IF I = {} THEN NaN ELSE Frac(SumAt(t, I), Cardinality(I))

\* C7: the past mean is the mean of Extent over exactly the north rows whose
\* Year is at most the least Year of the whole table plus 5, the recent mean
\* over exactly the north rows whose Year is at least the greatest Year of
\* the whole table minus 5; for the four-row example they are 12.5 and 10.0.
C7_EraMeans ==
    /\ past_avg_n # Absent =>
         LET t == df[1]
             P == {i \in 1..Len(t) : /\ t[i].hemisphere = "north"
                                     /\ \A j \in 1..Len(t) : t[i].Year <= t[j].Year + 5}
             R == {i \in 1..Len(t) : /\ t[i].hemisphere = "north"
                                     /\ \A j \in 1..Len(t) : t[i].Year >= t[j].Year - 5}
         IN  /\ past_avg_n = Some(MeanAt(t, P))
             /\ recent_avg_n = Some(MeanAt(t, R))
    /\ (past_avg_n # Absent /\ uploaded_file = Some(ExampleTable)) =>
         /\ past_avg_n = Some(Frac(125, 1))
         /\ recent_avg_n = Some(Frac(100, 1))

C7_Witness ==
    /\ uploaded_file = Some(ExampleTable)
    /\ past_avg_n = Some(Frac(125, 1))
    /\ recent_avg_n = Some(Frac(100, 1))
    /\ user_prompt # Absent
    /\ user_prompt[1].past = <<"1", "2", ".", "5", "0">>
    /\ user_prompt[1].recent = <<"1", "0", ".", "0", "0">>

OneYear(t) == \A i, j \in 1..Len(t) : t[i].Year = t[j].Year

EraFullOverlap(t) ==
    /\ \A i \in 1..Len(t) : InPast(t[i], YearMin(t)) /\ InRecent(t[i], YearMax(t))
    /\ PastWindow(t) = HemisphereRows(t, "north")
    /\ RecentWindow(t) = HemisphereRows(t, "north")
    /\ FEq(past_avg_n[1], recent_avg_n[1])
    /\ FEq(past_avg_n[1], stats_north[1].mean)
    /\ FEq(recent_avg_n[1], stats_north[1].mean)
    /\ ~past_avg_n[1].nan /\ ~recent_avg_n[1].nan

\* C8 as stated: for a table whose rows all have the same Year, both windows
\* take in every row, both means equal the overall north mean, and neither
\* is NaN.
C8_OneYearOverlap_AsStated ==
    (past_avg_n # Absent /\ OneYear(df[1])) => EraFullOverlap(df[1])

\* C8, amended: for a table whose rows all have the same Year and which has
\* at least one north row, every row passes both year tests, both windows
\* are the north rows, both means equal the overall north mean, and neither
\* is NaN.
C8_OneYearOverlap ==
    (past_avg_n # Absent /\ OneYear(df[1]) /\ CountRows(df[1], "north") > 0)
        => EraFullOverlap(df[1])

C8_Witness ==
    /\ past_avg_n # Absent
    /\ OneYear(df[1])
    /\ CountRows(df[1], "north") = 2
    /\ CountRows(df[1], "south") = 1
    /\ past_avg_n = Some(Frac(110, 1))

Ordered(s) ==
    /\ FLe(s.min, s.q25)
    /\ FLe(s.q25, s.q50)
    /\ FLe(s.q50, s.q75)
    /\ FLe(s.q75, s.max)

\* C9: every statistics block that is produced has min <= 25% <= 50% <= 75%
\* <= max, and its count is the number of rows of its hemisphere.
C9_StatsOrdered ==
    /\ stats_north # Absent =>
         /\ Ordered(stats_north[1])
         /\ stats_north[1].count = CountRows(df[1], "north")
    /\ stats_south # Absent =>
         /\ Ordered(stats_south[1])
         /\ stats_south[1].count = CountRows(df[1], "south")

=============================================================================
